---- MODULE Spec2Model ----
(***************************************************************************)
(* A model of src/db.rs: DatabaseThing, a lock-guarded in-memory list of   *)
(* package records backed by one RON text file.  Handles are clones that   *)
(* share one Arc<Mutex<DatabaseThingInner>>; every handle's Drop sets       *)
(* saved_on_panic and writes the whole state to the file.                  *)
(***************************************************************************)
EXTENDS Integers, Sequences, FiniteSets, TLC

\* ------------------------------------------------------------------ bounds

\* Handle slots (threads that call new() or hold a clone).
NumHandles == 2
\* Stores ever constructed by new() in one run.
MaxStores == 2
\* Cap on the length of a store's packages vector (Vec::push is unbounded).
MaxPackages == 2
\* Largest u32 value the decoder's number search covers.
MaxNum == 11

Handles == 1..NumHandles
Stores == 1..MaxStores

\* ------------------------------------------------------- the data model

\* Package names offered to add_package / contains_package: same letters,
\* different case.
Names == {"foo", "Foo"}

\* struct Repository { type, url }
Repository(t, u) == [type |-> t, url |-> u]

\* struct PackageNew { name, repository, downloads, stargazers_count }
PackageNew(n, d, s) ==
    [name |-> n, repository |-> Repository("git", "u"),
     downloads |-> d, stargazers_count |-> s]

\* struct PackageIssueFiled { name, repository: (String, String), ... }
PackageIssueFiled(n, d, s) ==
    [name |-> n, repository |-> <<"git", "u">>,
     downloads |-> d, stargazers_count |-> s]

\* enum PackageState { New(PackageNew), IssueFiled(PackageIssueFiled) }
StateNew(p) == [tag |-> "New", pkg |-> p]
StateIssueFiled(p) == [tag |-> "IssueFiled", pkg |-> p]

\* struct DatabaseThingData { saved_on_panic, packages }
DatabaseThingData(f, ps) == [saved_on_panic |-> f, packages |-> ps]

\* The state new() builds when the file does not exist.
DefaultData == DatabaseThingData(FALSE, <<>>)

\* The records callers hand to add_package.
PackageInputs == {PackageNew(n, 3, 0) : n \in Names}

\* ------------------------------------------------- RON text, as tokens

\* A token is <<kind, text>>: "id" an identifier, "sym" punctuation, "str" a
\* quoted string's content, "num" a decimal number, "bool" true / false.
Id(t) == <<"id", t>>
Sym(t) == <<"sym", t>>
Str(t) == <<"str", t>>

Digit(n) == <<"0", "1", "2", "3", "4", "5", "6", "7", "8", "9">>[n + 1]

RECURSIVE Decimal(_)
\* A u32 rendered in decimal, most significant digit first.
Decimal(n) == IF n < 10 THEN Digit(n) ELSE Decimal(n \div 10) \o Digit(n % 10)

Num(n) == <<"num", Decimal(n)>>
Bool(b) == <<"bool", IF b THEN "true" ELSE "false">>

\* name: value,   (the pretty printer ends every field with a comma)
Field(name, value) == <<Id(name), Sym(":")>> \o value \o <<Sym(",")>>

SerRepository(r) ==
    <<Id("Repository"), Sym("(")>>
    \o Field("type", <<Str(r.type)>>)
    \o Field("url", <<Str(r.url)>>)
    \o <<Sym(")")>>

\* SerPair with the tuple's elements written in the other order.
SerPairSwapped(p) == <<Sym("("), Str(p[2]), Sym(","), Str(p[1]), Sym(")")>>

\* (String, String) as a RON tuple.
SerPair(p) == <<Sym("("), Str(p[1]), Sym(","), Str(p[2]), Sym(")")>>

SerPackageNew(p) ==
    <<Id("PackageNew"), Sym("(")>>
    \o Field("name", <<Str(p.name)>>)
    \o Field("repository", SerRepository(p.repository))
    \o Field("downloads", <<Num(p.downloads)>>)
    \o Field("stargazers_count", <<Num(p.stargazers_count)>>)
    \o <<Sym(")")>>

SerPackageIssueFiled(p) ==
    <<Id("PackageIssueFiled"), Sym("(")>>
    \o Field("name", <<Str(p.name)>>)
    \o Field("repository", SerPair(p.repository))
    \o Field("downloads", <<Num(p.downloads)>>)
    \o Field("stargazers_count", <<Num(p.stargazers_count)>>)
    \o <<Sym(")")>>

SerPackageState(s) ==
    <<Id(s.tag), Sym("(")>>
    \o (IF s.tag = "New" THEN SerPackageNew(s.pkg)
                         ELSE SerPackageIssueFiled(s.pkg))
    \o <<Sym(")")>>

RECURSIVE SerPackages(_)
SerPackages(ps) ==
    IF ps = <<>> THEN <<>>
    ELSE SerPackageState(Head(ps)) \o <<Sym(",")>> \o SerPackages(Tail(ps))

\* Encode with the packages field always written as the empty list.
EncodeWithoutPackages(d) ==
    <<Id("DatabaseThingData"), Sym("(")>>
    \o Field("saved_on_panic", <<Bool(d.saved_on_panic)>>)
    \o Field("packages", <<Sym("["), Sym("]")>>)
    \o <<Sym(")")>>

\* ron::ser::to_string_pretty(&data, pretty_config()): struct names written,
\* fields in declaration order.
Encode(d) ==
    <<Id("DatabaseThingData"), Sym("(")>>
    \o Field("saved_on_panic", <<Bool(d.saved_on_panic)>>)
    \o Field("packages", <<Sym("[")>> \o SerPackages(d.packages) \o <<Sym("]")>>)
    \o <<Sym(")")>>

\* --------------------------------------------------------- RON parsing

\* The tokens that carry a value; the others are the text's fixed frame.
IsValue(t) == t[1] \in {"str", "num", "bool"}

\* A decimal number within the modelled range of u32, and its value.
IsU32(text) == \E n \in 0..MaxNum : Decimal(n) = text
U32(text) == CHOOSE n \in 0..MaxNum : Decimal(n) = text

\* Whether a value token's text is a value of its kind.
ValueOk(t) ==
    CASE t[1] = "num" -> IsU32(t[2])
      [] t[1] = "bool" -> t[2] \in {"true", "false"}
      [] OTHER -> TRUE

\* `toks` is `shape` token for token: the same frame, and at each value of
\* the shape a value of that kind.
Matches(toks, shape) ==
    /\ Len(toks) = Len(shape)
    /\ \A i \in 1..Len(shape) :
         IF IsValue(shape[i])
         THEN toks[i][1] = shape[i][1] /\ ValueOk(toks[i])
         ELSE toks[i] = shape[i]

\* The texts of the value tokens, in order.
Values(toks) == [i \in 1..Len(SelectSeq(toks, IsValue)) |-> SelectSeq(toks, IsValue)[i][2]]

\* What each variant looks like in the text.
ShapeNew == SerPackageState(StateNew(PackageNew("", 0, 0)))
ShapeIssueFiled == SerPackageState(StateIssueFiled(PackageIssueFiled("", 0, 0)))
ShapeOf(tag) == IF tag = Id("New") THEN ShapeNew ELSE ShapeIssueFiled

\* One element of the packages list, from exactly its tokens.
DePackageState(toks) ==
    IF Head(toks) = Id("New")
    THEN StateNew([name |-> Values(toks)[1],
                   repository |-> Repository(Values(toks)[2], Values(toks)[3]),
                   downloads |-> U32(Values(toks)[4]),
                   stargazers_count |-> U32(Values(toks)[5])])
    ELSE StateIssueFiled([name |-> Values(toks)[1],
                          repository |-> <<Values(toks)[2], Values(toks)[3]>>,
                          downloads |-> U32(Values(toks)[4]),
                          stargazers_count |-> U32(Values(toks)[5])])

\* The first element's tokens and the tokens after its comma.
First(toks) == SubSeq(toks, 1, Len(ShapeOf(Head(toks))))
Rest(toks) == SubSeq(toks, Len(ShapeOf(Head(toks))) + 2, Len(toks))

RECURSIVE ListOk(_)
\* Whether `toks` is a sequence of elements, each followed by a comma.
ListOk(toks) ==
    \/ toks = <<>>
    \/ /\ Head(toks) \in {Id("New"), Id("IssueFiled")}
       /\ Len(toks) > Len(ShapeOf(Head(toks)))
       /\ Matches(First(toks), ShapeOf(Head(toks)))
       /\ toks[Len(ShapeOf(Head(toks))) + 1] = Sym(",")
       /\ ListOk(Rest(toks))

RECURSIVE DePackages(_)
\* The elements of a list that ListOk accepts.
DePackages(toks) ==
    IF toks = <<>> THEN <<>>
    ELSE <<DePackageState(First(toks))>> \o DePackages(Rest(toks))

\* The text before the list's elements and after them.
HeadShape == SubSeq(Encode(DefaultData), 1, 9)
TailShape == SubSeq(Encode(DefaultData), 10, 12)
ListOf(toks) == SubSeq(toks, 10, Len(toks) - 3)

\* Whether ron::from_str::<DatabaseThingData>(text) is Ok.
DecodeOk(toks) ==
    /\ Len(toks) >= 12
    /\ Matches(SubSeq(toks, 1, 9), HeadShape)
    /\ SubSeq(toks, Len(toks) - 2, Len(toks)) = TailShape
    /\ ListOk(ListOf(toks))

\* ron::from_str::<DatabaseThingData>(text): ok with the value, or an error.
Decode(toks) ==
    IF DecodeOk(toks)
    THEN [ok |-> TRUE,
          val |-> DatabaseThingData(toks[5][2] = "true", DePackages(ListOf(toks)))]
    ELSE [ok |-> FALSE, val |-> DefaultData]

\* ------------------------------------------------------------ the state

VARIABLES
    file,        \* the backing file: [exists, utf8, text]
    data,        \* data[s]: inner.data of store s (saved_on_panic, packages)
    meta,        \* meta[s]: inner.meta.last_write_call_time of store s, as the
                 \* call that read the clock: <<"new", s>> or <<"flush", h>>
    mutex,       \* mutex[s]: [holder, poisoned] of store s's Mutex
    nstores,     \* new() calls started so far; the next store is nstores + 1
    stdoutOpen,  \* whether println! can still write to stdout
    aborted,     \* the process aborted (a panic while already panicking)
    pc,          \* pc[h]: where handle h's thread is
    owner,       \* owner[h]: the store handle h points to (0: none)
    res,         \* res[h]: h's last contains_package call, <<name, answer>>, or
                 \* the error new() returned, or the error of h's flush
    panicking,   \* panicking[h]: std::thread::panicking() in h's drop
    buf,         \* buf[h]: the text flush encoded and has yet to write
    origin,      \* origin[s]: how new() got store s: "none", "loaded", "created"
    added,       \* added[s]: <<name, handle>> of every add_package that returned
    lastWriter,  \* who last wrote the file: <<"none",0>>, <<"new",s>>, <<"drop",h>>
    lastLoad     \* the last load of an existing file, and what happened since

vars == <<file, data, meta, mutex, nstores, stdoutOpen, aborted, pc,
          owner, res, panicking, buf, origin, added, lastWriter, lastLoad>>

storeVars == <<data, meta, mutex>>
callVars == <<res, panicking, buf>>

NoRes == <<>>
NoBuf == <<>>

\* File contents a run may start from.
MissingFile == [exists |-> FALSE, utf8 |-> TRUE, text |-> <<>>]
TextFile(t) == [exists |-> TRUE, utf8 |-> TRUE, text |-> t]
\* Bytes that are not UTF-8: String::from_utf8 fails, there is no text.
BinaryFile == [exists |-> TRUE, utf8 |-> FALSE, text |-> <<>>]
\* What a failed sync_fs::write can leave behind: the file created or
\* truncated, nothing written.
EmptyFile == TextFile(<<>>)

InitStates ==
    { DatabaseThingData(TRUE, <<StateIssueFiled(PackageIssueFiled("foo", 10, 2))>>) }

InitFiles ==
    {MissingFile, BinaryFile}
    \cup {TextFile(Encode(d)) : d \in InitStates}
    \* a valid file cut short
    \cup {TextFile(SubSeq(Encode(d), 1, Len(Encode(d)) - 1)) : d \in InitStates}

Init ==
    /\ file \in InitFiles
    /\ data = [s \in Stores |-> DefaultData]
    /\ meta = [s \in Stores |-> <<"new", s>>]
    /\ mutex = [s \in Stores |-> [holder |-> 0, poisoned |-> FALSE]]
    /\ nstores = 0
    /\ stdoutOpen = TRUE
    /\ aborted = FALSE
    /\ pc = [h \in Handles |-> "none"]
    /\ owner = [h \in Handles |-> 0]
    /\ res = [h \in Handles |-> NoRes]
    /\ panicking = [h \in Handles |-> FALSE]
    /\ buf = [h \in Handles |-> NoBuf]
    /\ origin = [s \in Stores |-> "none"]
    /\ added = [s \in Stores |-> {}]
    /\ lastWriter = <<"none", 0>>
    /\ lastLoad = [valid |-> FALSE, val |-> DefaultData,
                   added |-> FALSE, written |-> FALSE]

\* ------------------------------------------------------------ the mutex

\* lock_inner() as self.inner.lock().unwrap(): no guard from a poisoned mutex.
LockInnerUnwrap(m) == ~m.poisoned

\* lock_inner(): whether it returns a guard once Mutex::lock() has the mutex.
LockInner(m) ==
    \/ ~m.poisoned    \* Ok(lock) => lock
    \/ m.poisoned     \* Err(e) => e.into_inner()

\* Mutex::lock() blocks while another guard is alive.
CanLock(m) == m.holder = 0 /\ LockInner(m)
Locked(m, h) == [m EXCEPT !.holder = h]

\* A guard dropped on a normal path: the poison flag stays as it is.
Unlocked(m) == [m EXCEPT !.holder = 0]
\* A guard dropped while its thread unwinds from a panic poisons the mutex.
Poisoned(m) == [holder |-> 0, poisoned |-> TRUE]

\* The lowest unused handle slot, 0 when there is none.
FreeSlot ==
    IF \E h \in Handles : pc[h] = "none"
    THEN CHOOSE h \in Handles : pc[h] = "none" /\ \A k \in 1..(h - 1) : pc[k] # "none"
    ELSE 0

\* What a file write does to the record of the last load.
Written(l) == [l EXCEPT !.written = TRUE]

\* ---------------------------------------------------------------- new()

\* What reading and parsing the file's bytes gives once async_fs::read has
\* succeeded: String::from_utf8, then ron::from_str.
Load(f) ==
    IF ~f.utf8 THEN [ok |-> FALSE, val |-> DefaultData, err |-> "error parsing text"]
    ELSE LET d == Decode(f.text) IN
         IF d.ok THEN [ok |-> TRUE, val |-> d.val, err |-> ""]
         ELSE [ok |-> FALSE, val |-> DefaultData, err |-> "error parsing ron"]

\* Self { inner: Arc::new(Mutex::new(DatabaseThingInner { meta, data })) }
Construct(h, d, o) ==
    /\ origin' = [origin EXCEPT ![owner[h]] = o]
    /\ data' = [data EXCEPT ![owner[h]] = d]
    /\ meta' = [meta EXCEPT ![owner[h]] = <<"new", owner[h]>>]
    /\ mutex' = [mutex EXCEPT ![owner[h]] = [holder |-> 0, poisoned |-> FALSE]]
    /\ pc' = [pc EXCEPT ![h] = "idle"]
    /\ res' = [res EXCEPT ![h] = NoRes]

\* new() returns Err: no handle, no store.
Refuse(h, e) ==
    /\ pc' = [pc EXCEPT ![h] = "failed"]
    /\ res' = [res EXCEPT ![h] = <<e>>]
    /\ owner' = [owner EXCEPT ![h] = 0]
    /\ UNCHANGED storeVars

\* new(): Path::new(filename).exists() picks the branch.
NewStart(h) ==
    /\ ~aborted
    /\ h = FreeSlot
    /\ nstores < MaxStores
    /\ nstores' = nstores + 1
    /\ owner' = [owner EXCEPT ![h] = nstores + 1]
    /\ pc' = [pc EXCEPT ![h] = IF file.exists THEN "new_exists" ELSE "new_missing"]
    /\ UNCHANGED <<file, storeVars, stdoutOpen, aborted, callVars,
                   origin, added, lastWriter, lastLoad>>

\* NewLoad followed by the write of the other branch.
NewLoadRewrites(h) ==
    /\ ~aborted
    /\ pc[h] = "new_exists"
    /\ Load(file).ok
    /\ Construct(h, Load(file).val, "loaded")
    /\ file' = TextFile(Encode(DefaultData))
    /\ lastLoad' = [valid |-> TRUE, val |-> Load(file).val,
                    added |-> FALSE, written |-> FALSE]
    /\ UNCHANGED <<nstores, stdoutOpen, aborted, owner, panicking, buf, added,
                   lastWriter>>

\* new(), the file exists: read, from_utf8 and from_str all succeed.
NewLoad(h) ==
    /\ ~aborted
    /\ pc[h] = "new_exists"
    /\ Load(file).ok
    /\ Construct(h, Load(file).val, "loaded")
    /\ lastLoad' = [valid |-> TRUE, val |-> Load(file).val,
                    added |-> FALSE, written |-> FALSE]
    /\ UNCHANGED <<file, nstores, stdoutOpen, aborted, owner, panicking,
                   buf, added, lastWriter>>

\* NewLoadFails with the default state standing in for what could not be read.
NewLoadDefaults(h) ==
    /\ ~aborted
    /\ pc[h] = "new_exists"
    /\ Construct(h, DefaultData, "loaded")
    /\ UNCHANGED <<file, nstores, stdoutOpen, aborted, owner, panicking, buf,
                   added, lastWriter, lastLoad>>

\* new(), the file exists: the read fails, or the bytes are not text, or the
\* text is not RON for DatabaseThingData.  Each `?` returns the error.
NewLoadFails(h) ==
    /\ ~aborted
    /\ pc[h] = "new_exists"
    /\ \/ Refuse(h, "error reading file")
       \/ ~Load(file).ok /\ Refuse(h, Load(file).err)
    /\ UNCHANGED <<file, nstores, stdoutOpen, aborted, panicking, buf,
                   origin, added, lastWriter, lastLoad>>

\* NewInit with the write left out.
NewInitUnwritten(h) ==
    /\ ~aborted
    /\ pc[h] = "new_missing"
    /\ Construct(h, DefaultData, "created")
    /\ lastWriter' = <<"new", owner[h]>>
    /\ UNCHANGED <<file, nstores, stdoutOpen, aborted, owner, panicking, buf,
                   added, lastLoad>>

\* new(), the file does not exist: the default state is encoded and written,
\* and the store is built around it.
NewInit(h) ==
    /\ ~aborted
    /\ pc[h] = "new_missing"
    /\ file' = TextFile(Encode(DefaultData))
    /\ Construct(h, DefaultData, "created")
    /\ lastWriter' = <<"new", owner[h]>>
    /\ lastLoad' = Written(lastLoad)
    /\ UNCHANGED <<nstores, stdoutOpen, aborted, owner, panicking, buf, added>>

\* NewInitFails with the write's error dropped: the store is built around
\* the default state though nothing was written.
NewInitFailsConstructs(h) ==
    /\ ~aborted
    /\ pc[h] = "new_missing"
    /\ Construct(h, DefaultData, "created")
    /\ UNCHANGED <<file, nstores, stdoutOpen, aborted, owner, panicking, buf,
                   added, lastWriter, lastLoad>>

\* new(), the file does not exist and async_fs::write fails: `?` returns the
\* error.  The failed write created nothing, or left an empty file.
NewInitFails(h) ==
    /\ ~aborted
    /\ pc[h] = "new_missing"
    /\ \/ UNCHANGED <<file, lastLoad>>
       \/ file' = EmptyFile /\ lastLoad' = Written(lastLoad)
    /\ Refuse(h, "io error")
    /\ UNCHANGED <<nstores, stdoutOpen, aborted, panicking, buf, origin, added,
                   lastWriter>>

\* #[derive(Clone)]: the new handle shares the Arc.
Clone(h, h2) ==
    /\ ~aborted
    /\ pc[h] = "idle"
    /\ h2 = FreeSlot
    /\ pc' = [pc EXCEPT ![h2] = "idle"]
    /\ owner' = [owner EXCEPT ![h2] = owner[h]]
    /\ UNCHANGED <<file, storeVars, nstores, stdoutOpen, aborted,
                   callVars, origin, added, lastWriter, lastLoad>>

\* ------------------------------------------------ add_package, contains

\* Push with the vector assigned instead of extended.
PushReplacing(ps, p) == <<StateNew(p)>>

\* Push that keeps the vector as it is when the name is already there.
PushUnique(ps, p) ==
    IF \E i \in 1..Len(ps) : ps[i].pkg.name = p.name THEN ps
    ELSE Append(ps, StateNew(p))

\* Push at the front of the vector.
PushFront(ps, p) == <<StateNew(p)>> \o ps

\* inner.data.packages.push(PackageState::New(package.clone()))
Push(ps, p) == Append(ps, StateNew(p))

\* add_package(package): under the guard from lock_inner(), which the call
\* takes and drops without leaving the function, the push; then Ok(()).
AddPackage(h, p) ==
    /\ ~aborted
    /\ pc[h] = "idle"
    /\ Len(data[owner[h]].packages) < MaxPackages
    /\ CanLock(mutex[owner[h]])
    /\ UNCHANGED mutex
    /\ data' = [data EXCEPT ![owner[h]].packages = Push(@, p)]
    /\ res' = [res EXCEPT ![h] = NoRes]
    /\ added' = [added EXCEPT ![owner[h]] = @ \cup {<<p.name, h>>}]
    /\ lastLoad' = [lastLoad EXCEPT !.added = TRUE]
    /\ UNCHANGED <<file, meta, nstores, stdoutOpen, aborted, pc, owner,
                   panicking, buf, origin, lastWriter>>

\* The name of a record of either variant.
NameOf(s) == s.pkg.name

RECURSIVE ScanNewOnly(_, _)
\* Scan with the IssueFiled arm of the match never matching.
ScanNewOnly(ps, name) ==
    IF ps = <<>> THEN FALSE
    ELSE IF Head(ps).tag = "New" /\ NameOf(Head(ps)) = name THEN TRUE
    ELSE ScanNewOnly(Tail(ps), name)

RECURSIVE Scan(_, _)
\* contains_package's loop: true at the first record whose name is `name`.
Scan(ps, name) ==
    IF ps = <<>> THEN FALSE
    ELSE IF NameOf(Head(ps)) = name THEN TRUE
    ELSE Scan(Tail(ps), name)

\* contains_package(package_name): under the guard, the scan; the guard is
\* dropped on return.  res[h] keeps the question and the answer.
ContainsPackage(h, n) ==
    /\ ~aborted
    /\ pc[h] = "idle"
    /\ CanLock(mutex[owner[h]])
    /\ UNCHANGED mutex
    /\ res' = [res EXCEPT ![h] = <<n, Scan(data[owner[h]].packages, n)>>]
    /\ UNCHANGED <<file, data, meta, nstores, stdoutOpen, aborted, pc, owner,
                   panicking, buf, origin, added, lastWriter, lastLoad>>

\* ------------------------------------------------- Drop, and the flush

\* drop(): lock_inner(); `p` is what panicking() will return, whether the
\* handle's thread is unwinding.
DropLock(h, p) ==
    /\ ~aborted
    /\ pc[h] = "idle"
    /\ CanLock(mutex[owner[h]])
    /\ mutex' = [mutex EXCEPT ![owner[h]] = Locked(@, h)]
    /\ pc' = [pc EXCEPT ![h] = "drop_locked"]
    /\ panicking' = [panicking EXCEPT ![h] = p]
    /\ res' = [res EXCEPT ![h] = NoRes]
    /\ UNCHANGED <<file, data, meta, nstores, stdoutOpen, aborted, owner,
                   buf, origin, added, lastWriter, lastLoad>>

\* SetFlag with the flag inverted.
SetFlagInverted(d, p) == [d EXCEPT !.saved_on_panic = ~p]

\* SetFlag with the whole data rebuilt around the flag.
SetFlagRebuilding(d, p) == DatabaseThingData(p, <<>>)

\* SetFlag that only ever sets the flag: a normal drop leaves a true flag.
SetFlagSticky(d, p) == [d EXCEPT !.saved_on_panic = @ \/ p]

\* inner.data.saved_on_panic = panicking
SetFlag(d, p) == [d EXCEPT !.saved_on_panic = p]

\* drop() without its drop(inner): the guard lives to the end of drop().
DropGuardKept(m) == m

\* drop(inner), before write_to_file_immediately() locks again.
DropGuard(m) == Unlocked(m)

\* drop(): the flag set, the lines printed, the guard dropped.
DropFlag(h) ==
    /\ ~aborted
    /\ pc[h] = "drop_locked"
    /\ stdoutOpen
    /\ data' = [data EXCEPT ![owner[h]] = SetFlag(@, panicking[h])]
    /\ mutex' = [mutex EXCEPT ![owner[h]] = DropGuard(@)]
    /\ pc' = [pc EXCEPT ![h] = "flush_wait"]
    /\ UNCHANGED <<file, meta, nstores, stdoutOpen, aborted, owner,
                   callVars, origin, added, lastWriter, lastLoad>>

\* drop() with stdout closed: println! panics after the flag is set, with the
\* guard alive.  In a thread already unwinding that aborts the process;
\* otherwise the thread unwinds out of drop(), its guard poisons the mutex and
\* nothing is written.
DropPrintPanics(h) ==
    /\ ~aborted
    /\ pc[h] = "drop_locked"
    /\ ~stdoutOpen
    /\ data' = [data EXCEPT ![owner[h]] = SetFlag(@, panicking[h])]
    /\ IF panicking[h]
       THEN aborted' = TRUE /\ UNCHANGED <<mutex, pc>>
       ELSE /\ mutex' = [mutex EXCEPT ![owner[h]] = Poisoned(@)]
            /\ pc' = [pc EXCEPT ![h] = "dropped"]
            /\ UNCHANGED aborted
    /\ UNCHANGED <<file, meta, nstores, stdoutOpen, owner, callVars,
                   origin, added, lastWriter, lastLoad>>

\* write_to_file_immediately_inner: lock_inner().
FlushLock(h) ==
    /\ ~aborted
    /\ pc[h] = "flush_wait"
    /\ CanLock(mutex[owner[h]])
    /\ mutex' = [mutex EXCEPT ![owner[h]] = Locked(@, h)]
    /\ pc' = [pc EXCEPT ![h] = "flush_locked"]
    /\ UNCHANGED <<file, data, meta, nstores, stdoutOpen, aborted, owner,
                   callVars, origin, added, lastWriter, lastLoad>>

\* The flush without its drop(inner): the guard lives until the function
\* returns, after the write.
FlushGuardKept(m) == m

\* drop(inner), before sync_fs::write.
FlushGuard(m) == Unlocked(m)

\* write_to_file_immediately_inner: the time noted, the state encoded, the
\* guard dropped.
FlushEncode(h) ==
    /\ ~aborted
    /\ pc[h] = "flush_locked"
    /\ meta' = [meta EXCEPT ![owner[h]] = <<"flush", h>>]
    /\ buf' = [buf EXCEPT ![h] = Encode(data[owner[h]])]
    /\ mutex' = [mutex EXCEPT ![owner[h]] = FlushGuard(@)]
    /\ pc' = [pc EXCEPT ![h] = "flush_write"]
    /\ UNCHANGED <<file, data, nstores, stdoutOpen, aborted, owner, res,
                   panicking, origin, added, lastWriter, lastLoad>>

\* sync_fs::write(&filename, &data) succeeds: the file is the encoded text.
FlushWrite(h) ==
    /\ ~aborted
    /\ pc[h] = "flush_write"
    /\ file' = TextFile(buf[h])
    /\ buf' = [buf EXCEPT ![h] = NoBuf]
    /\ pc' = [pc EXCEPT ![h] = "dropped"]
    /\ lastWriter' = <<"drop", h>>
    /\ lastLoad' = Written(lastLoad)
    /\ UNCHANGED <<storeVars, nstores, stdoutOpen, aborted, owner,
                   res, panicking, origin, added>>

\* sync_fs::write fails: `res` is the error, which is printed, not returned.
\* The file is as it was, or left empty.  With stdout closed the println!
\* panics, which aborts the process when the thread is already unwinding.
FlushWriteFails(h) ==
    /\ ~aborted
    /\ pc[h] = "flush_write"
    /\ \/ UNCHANGED <<file, lastLoad>>
       \/ file' = EmptyFile /\ lastLoad' = Written(lastLoad)
    /\ buf' = [buf EXCEPT ![h] = NoBuf]
    /\ res' = [res EXCEPT ![h] = <<"io error">>]
    /\ IF ~stdoutOpen /\ panicking[h]
       THEN aborted' = TRUE /\ UNCHANGED pc
       ELSE pc' = [pc EXCEPT ![h] = "dropped"] /\ UNCHANGED aborted
    /\ UNCHANGED <<storeVars, nstores, stdoutOpen, owner,
                   panicking, origin, added, lastWriter>>

\* The reader of the process's stdout goes away.
StdoutCloses ==
    /\ ~aborted
    /\ stdoutOpen
    /\ stdoutOpen' = FALSE
    /\ UNCHANGED <<file, storeVars, nstores, aborted, pc, owner,
                   callVars, origin, added, lastWriter, lastLoad>>

\* ------------------------------------------------------ specifications

Next ==
    \/ \E h \in Handles : NewStart(h)
    \/ \E h \in Handles : NewLoad(h)
    \/ \E h \in Handles : NewLoadFails(h)
    \/ \E h \in Handles : NewInit(h)
    \/ \E h \in Handles : NewInitFails(h)
    \/ \E h, h2 \in Handles : Clone(h, h2)
    \/ \E h \in Handles, p \in PackageInputs : AddPackage(h, p)
    \/ \E h \in Handles, n \in Names : ContainsPackage(h, n)
    \/ \E h \in Handles, p \in BOOLEAN : DropLock(h, p)
    \/ \E h \in Handles : DropFlag(h)
    \/ \E h \in Handles : DropPrintPanics(h)
    \/ \E h \in Handles : FlushLock(h)
    \/ \E h \in Handles : FlushEncode(h)
    \/ \E h \in Handles : FlushWrite(h)
    \/ \E h \in Handles : FlushWriteFails(h)
    \/ StdoutCloses

Spec == Init /\ [][Next]_vars

\* ------------------------------------------- the format on its own

\* The records and the states the format is applied to: both variants, both
\* names, one-digit and two-digit numbers, every order, both flags.
CodecRecords ==
    {StateNew(PackageNew(n, d, 0)) : n \in Names, d \in {3, MaxNum}}
    \cup {StateIssueFiled(PackageIssueFiled(n, d, 2)) : n \in Names, d \in {3, MaxNum}}

CodecStates ==
    {DatabaseThingData(f, ps) :
        f \in BOOLEAN, ps \in UNION {[1..n -> CodecRecords] : n \in 0..MaxPackages}}

\* A state in memory (store 1's data), nothing encoded yet.
CodecInit ==
    /\ \E d \in CodecStates :
          data = [s \in Stores |-> IF s = 1 THEN d ELSE DefaultData]
    /\ file = MissingFile
    /\ meta = [s \in Stores |-> <<"new", s>>]
    /\ mutex = [s \in Stores |-> [holder |-> 0, poisoned |-> FALSE]]
    /\ nstores = 0
    /\ stdoutOpen = TRUE
    /\ aborted = FALSE
    /\ pc = [h \in Handles |-> "none"]
    /\ owner = [h \in Handles |-> 0]
    /\ res = [h \in Handles |-> NoRes]
    /\ panicking = [h \in Handles |-> FALSE]
    /\ buf = [h \in Handles |-> NoBuf]
    /\ origin = [s \in Stores |-> "none"]
    /\ added = [s \in Stores |-> {}]
    /\ lastWriter = <<"none", 0>>
    /\ lastLoad = [valid |-> FALSE, val |-> DefaultData,
                   added |-> FALSE, written |-> FALSE]

\* ron::ser::to_string_pretty(&data, pretty_config()), the text kept as the
\* file's.
CodecEncode ==
    /\ ~file.exists
    /\ file' = TextFile(Encode(data[1]))
    /\ UNCHANGED <<storeVars, nstores, stdoutOpen, aborted, pc, owner,
                   callVars, origin, added, lastWriter, lastLoad>>

\* ron::from_str(&text), the result kept as the last load.
CodecDecode ==
    /\ file.exists
    /\ ~lastLoad.valid
    /\ lastLoad' = [valid |-> Decode(file.text).ok, val |-> Decode(file.text).val,
                    added |-> FALSE, written |-> FALSE]
    /\ UNCHANGED <<file, storeVars, nstores, stdoutOpen, aborted, pc, owner,
                   callVars, origin, added, lastWriter>>

CodecNext == CodecEncode \/ CodecDecode

CodecSpec == CodecInit /\ [][CodecNext]_vars

\* The steps a thread takes by itself once a call is under way.  A thread
\* that waits for the mutex gets it if it is free again and again.
Running(h) ==
    \/ NewLoad(h) \/ NewLoadFails(h) \/ NewInit(h) \/ NewInitFails(h)
    \/ DropFlag(h) \/ DropPrintPanics(h)
    \/ FlushEncode(h) \/ FlushWrite(h) \/ FlushWriteFails(h)

FairSpec ==
    /\ Spec
    /\ \A h \in Handles : WF_vars(Running(h)) /\ SF_vars(FlushLock(h))

\* ---------------------------------------------------------- the claims

\* Handle h's contains_package returns in this step: res'[h] is the question
\* and the answer.
ContainsReturns(h) == res'[h] # res[h] /\ Len(res'[h]) = 2

\* The handles whose add_package of a record named n has returned on store s.
Adders(s, n) == {k \in Handles : <<n, k>> \in added[s]}

\* Whether the file holds a valid state with a record named n.
FileHas(n) == Load(file).ok /\ \E i \in 1..Len(Load(file).val.packages) :
                  NameOf(Load(file).val.packages[i]) = n

\* C1: once add_package(r) has returned on a store, every contains_package of
\* r.name on that store answers true, whatever the file holds.
C1_AddedIsContained ==
    [][\A h \in Handles :
         (ContainsReturns(h) /\ Adders(owner[h], res'[h][1]) # {})
             => res'[h][2] = TRUE]_vars

\* C1's case: a name was added, contains_package answered true for it, and
\* the file has no record of that name.
C1_Witness ==
    \E h \in Handles :
        /\ Len(res[h]) = 2 /\ res[h][2] = TRUE
        /\ Adders(owner[h], res[h][1]) # {}
        /\ ~FileHas(res[h][1])

\* C2: contains_package(n) answers true exactly when some record of the
\* store, of either variant, has the name n.
C2_ContainsIffNamePresent ==
    [][\A h \in Handles :
         ContainsReturns(h) =>
            (res'[h][2] = \E i \in 1..Len(data[owner[h]].packages) :
                              data[owner[h]].packages[i].pkg.name = res'[h][1])]_vars

\* C2's case: on one store, "foo" was found though only an IssueFiled record
\* has that name, and "Foo" was not found.
C2_Witness ==
    \E h, k \in Handles :
        /\ owner[h] = owner[k]
        /\ res[h] = <<"foo", TRUE>>
        /\ res[k] = <<"Foo", FALSE>>
        /\ \A i \in 1..Len(data[owner[h]].packages) :
              data[owner[h]].packages[i].tag = "IssueFiled"

\* C3: a record added through one handle is found through every other handle
\* of the same store, also after a handle of that store was torn down.
C3_HandlesShareState ==
    [][\A h \in Handles :
         (ContainsReturns(h) /\ Adders(owner[h], res'[h][1]) \ {h} # {})
             => res'[h][2] = TRUE]_vars

\* C3's case: h found a name that only k added, and k has been torn down.
C3_Witness ==
    \E h, k \in Handles :
        /\ h # k /\ owner[h] = owner[k]
        /\ pc[h] = "idle" /\ pc[k] = "dropped"
        /\ Len(res[h]) = 2 /\ res[h][2] = TRUE
        /\ Adders(owner[h], res[h][1]) = {k}

\* Handle h's flush writes the file in this step: sync_fs::write succeeded.
FlushWrites(h) ==
    pc[h] = "flush_write" /\ pc'[h] = "dropped" /\ file' = TextFile(buf[h])

\* The handles of store s whose drop has begun.
TornDown(s) ==
    {k \in Handles : owner[k] = s
                      /\ pc[k] \in {"drop_locked", "flush_wait", "flush_locked",
                                    "flush_write", "dropped"}}

\* C4: when the flush of a handle dropped during a panic writes the file, the
\* file decodes with saved_on_panic = true.
C4_AbnormalTeardownWritesTrue ==
    [][\A h \in Handles :
         (FlushWrites(h) /\ panicking[h])
             => Load(file').ok /\ Load(file').val.saved_on_panic = TRUE]_vars

\* C5: when a store created for a missing file, with no add_package call and
\* only normal teardowns, has a handle's flush write the file, the file
\* decodes to saved_on_panic = false and no packages.
C5_FreshStoreWritesDefault ==
    [][\A h \in Handles :
         ( /\ FlushWrites(h)
           /\ origin[owner[h]] = "created"
           /\ added[owner[h]] = {}
           /\ \A k \in TornDown(owner[h]) : ~panicking[k] )
             => Load(file') = [ok |-> TRUE, val |-> DefaultData, err |-> ""]]_vars

\* C5's case: the file was last written by the normal teardown of a handle of
\* a created store to which nothing was added.
C5_Witness ==
    \E h \in Handles :
        /\ lastWriter = <<"drop", h>>
        /\ pc[h] = "dropped" /\ ~panicking[h]
        /\ origin[owner[h]] = "created"
        /\ added[owner[h]] = {}
        /\ file = TextFile(Encode(DefaultData))

\* C6: new() on a missing path returns with the file created, the file
\* decoding to the default state, and the store holding the default state.
C6_NewOnMissingCreatesDefault ==
    [][\A h \in Handles :
         (pc[h] = "new_missing" /\ pc'[h] = "idle")
             => /\ file'.exists
                /\ Load(file') = [ok |-> TRUE, val |-> DefaultData, err |-> ""]
                /\ data'[owner'[h]] = DefaultData]_vars

\* C6's case: new() found no file and has returned a handle.
C6_Witness ==
    \E h \in Handles :
        /\ pc[h] = "idle"
        /\ origin[owner[h]] = "created"
        /\ lastWriter = <<"new", owner[h]>>
        /\ data[owner[h]] = DefaultData

\* C7: new() on an existing file that cannot be read or parsed returns an
\* error: no handle, no store, the file as it was; a store is built from an
\* existing file only with what the file decodes to, and the default state is
\* written only when the path did not exist.
C7_NewOnInvalidFileFails ==
    [][\A h \in Handles :
         /\ (pc[h] = "new_exists" /\ pc'[h] # pc[h])
               => /\ file' = file
                  /\ IF Load(file).ok /\ pc'[h] = "idle"
                     THEN data'[owner'[h]] = Load(file).val
                     ELSE pc'[h] = "failed" /\ owner'[h] = 0 /\ Len(res'[h]) = 1
         /\ (pc[h] = "none" /\ pc'[h] = "new_missing") => ~file.exists]_vars

\* C7's case: new() has returned a parse error for a file that exists.
C7_Witness ==
    \E h \in Handles :
        /\ pc[h] = "failed"
        /\ res[h] \in {<<"error parsing text">>, <<"error parsing ron">>}
        /\ file.exists /\ ~Load(file).ok

\* new() returns a store loaded from the existing file in this step.
LoadReturns(h) == pc[h] = "new_exists" /\ pc'[h] = "idle"

\* C8 as stated: a new() that loads an existing file after an earlier load,
\* with no add_package call in between, builds a store with the content the
\* earlier load gave, also when a teardown came in between.
C8_ReloadIdentical ==
    [][\A h \in Handles :
         (LoadReturns(h) /\ lastLoad.valid /\ ~lastLoad.added)
             => data'[owner[h]] = lastLoad.val]_vars

\* C8 as amended: a new() that loads an existing file after an earlier load,
\* with no write of the file in between, builds a store with the content the
\* earlier load gave.
C8_ReloadIdenticalUnlessWritten ==
    [][\A h \in Handles :
         (LoadReturns(h) /\ lastLoad.valid /\ ~lastLoad.written)
             => data'[owner[h]] = lastLoad.val]_vars

\* C8's case: two stores loaded from the file, nothing added, nothing written.
C8_Witness ==
    \E s, t \in Stores :
        /\ s # t
        /\ origin[s] = "loaded" /\ origin[t] = "loaded"
        /\ lastWriter = <<"none", 0>>
        /\ added[s] = {} /\ added[t] = {}
        /\ data[s] = lastLoad.val /\ data[t] = lastLoad.val

\* A call in progress in drop().  It ends with the handle dropped (drop()
\* returned, or a println! panic unwound out of it), or with the process
\* aborted by a println! panic in a thread that was already unwinding.
InTeardown(h) == pc[h] \in {"drop_locked", "flush_wait", "flush_locked", "flush_write"}

\* C9: a poisoned mutex still gives its guard: with the mutex free, every
\* add_package, contains_package and drop of an idle handle and every waiting
\* flush can take it; taking it changes no data; and a teardown under way on a
\* poisoned mutex ends.
C9_PoisonedMutexStillServes ==
    /\ [](\A h \in Handles :
            (owner[h] # 0 /\ mutex[owner[h]].poisoned
               /\ mutex[owner[h]].holder = 0 /\ ~aborted)
            => /\ pc[h] = "idle" =>
                    /\ \A n \in Names : ENABLED ContainsPackage(h, n)
                    /\ \A p \in BOOLEAN : ENABLED DropLock(h, p)
                    /\ Len(data[owner[h]].packages) < MaxPackages =>
                           \A p \in PackageInputs : ENABLED AddPackage(h, p)
               /\ pc[h] = "flush_wait" => ENABLED FlushLock(h))
    /\ [][\A h \in Handles :
            (owner[h] # 0 /\ mutex[owner[h]].poisoned
               /\ mutex'[owner[h]].holder = h /\ mutex[owner[h]].holder = 0)
            => data' = data]_vars
    /\ \A h \in Handles :
          (InTeardown(h) /\ mutex[owner[h]].poisoned)
              ~> (pc[h] = "dropped" \/ aborted)

\* C9's case: a handle dropped during a panic wrote the file after another
\* handle's drop had panicked with the guard held: the mutex is poisoned and
\* the file carries the flag the failed holder set.
C9_Witness ==
    \E h \in Handles :
        /\ pc[h] = "dropped" /\ panicking[h]
        /\ mutex[owner[h]].poisoned
        /\ lastWriter = <<"drop", h>>
        /\ Load(file).ok /\ ~Load(file).val.saved_on_panic

\* C10: drop() does not hold the guard when its flush asks for it, every
\* teardown under way ends, and no guard is alive when no call is in progress.
C10_TeardownEnds ==
    /\ [](\A h \in Handles :
            pc[h] = "flush_wait" => mutex[owner[h]].holder # h)
    /\ []((~aborted /\ \A h \in Handles : pc[h] \in {"none", "failed", "idle", "dropped"})
            => \A s \in Stores : mutex[s].holder = 0)
    /\ \A h \in Handles : InTeardown(h) ~> (pc[h] = "dropped" \/ aborted)

\* C10's case: two handles of one store have both been torn down, the last
\* write was a teardown's, and the mutex is free.
C10_Witness ==
    \E h, k \in Handles :
        /\ h # k /\ owner[h] = owner[k]
        /\ pc[h] = "dropped" /\ pc[k] = "dropped"
        /\ lastWriter = <<"drop", k>>
        /\ meta[owner[h]] = <<"flush", k>>
        /\ mutex[owner[h]].holder = 0 /\ ~aborted

\* Handle h's flush fails in this step: sync_fs::write returned an error.
FlushFails(h) == pc[h] = "flush_write" /\ res[h] = NoRes /\ Len(res'[h]) = 1

\* C11: a flush whose file write fails does not propagate the failure: the
\* flush returns and the process lives, the guard is not held by the handle,
\* the in-memory data of every store is as before, and afterwards the idle
\* handles of the store can still take the free mutex for add_package,
\* contains_package and their own teardown.
C11_FlushFailureIsContained ==
    /\ [][\A h \in Handles :
            FlushFails(h)
               => /\ pc'[h] = "dropped" /\ ~aborted'
                  /\ mutex' = mutex /\ mutex[owner[h]].holder # h
                  /\ data' = data]_vars
    /\ [](\A h, k \in Handles :
            ( /\ Len(res[h]) = 1 /\ pc[h] \in {"flush_write", "dropped"}
              /\ owner[k] = owner[h] /\ pc[k] = "idle"
              /\ mutex[owner[k]].holder = 0 )
            => /\ \A n \in Names : ENABLED ContainsPackage(k, n)
               /\ \A p \in BOOLEAN : ENABLED DropLock(k, p)
               /\ Len(data[owner[k]].packages) < MaxPackages =>
                      \A p \in PackageInputs : ENABLED AddPackage(k, p))

\* C12: add_package(r) cannot fail: an idle handle can always make the call
\* once the mutex is free.  The call appends one New record holding r at the
\* end of the store's packages, also when a record of that name is there;
\* the records before it, saved_on_panic, the file and the other stores stay
\* as they were.
C12_AddAppendsOneNew ==
    /\ [][\A h \in Handles : \A p \in PackageInputs :
            AddPackage(h, p)
               => /\ data'[owner[h]].packages =
                         data[owner[h]].packages \o <<[tag |-> "New", pkg |-> p]>>
                  /\ data'[owner[h]].saved_on_panic = data[owner[h]].saved_on_panic
                  /\ file' = file
                  /\ \A t \in Stores \ {owner[h]} : data'[t] = data[t]]_vars
    /\ [](\A h \in Handles :
            ( /\ pc[h] = "idle" /\ ~aborted
              /\ mutex[owner[h]].holder = 0
              /\ Len(data[owner[h]].packages) < MaxPackages )
            => \A p \in PackageInputs : ENABLED AddPackage(h, p))

\* C12's case: a record named "foo" was added to a store that had loaded an
\* IssueFiled record named "foo": both are there, the new one last, and the
\* file is the one the store was loaded from.
C12_Witness ==
    \E s \in Stores :
        /\ origin[s] = "loaded"
        /\ data[s].packages = <<StateIssueFiled(PackageIssueFiled("foo", 10, 2)),
                                StateNew(PackageNew("foo", 3, 0))>>
        /\ lastWriter = <<"none", 0>>
        /\ Load(file).ok /\ Len(Load(file).val.packages) = 1

\* C13: decoding the encoding of a state gives that state: the text parses,
\* and the flag, every record's variant and fields, and the records' order
\* are those that were encoded.
C13_RoundTrip ==
    /\ file.exists =>
          Decode(file.text) = [ok |-> TRUE, val |-> data[1]]
    /\ lastLoad.valid =>
          /\ lastLoad.val.saved_on_panic = data[1].saved_on_panic
          /\ Len(lastLoad.val.packages) = Len(data[1].packages)
          /\ \A i \in 1..Len(data[1].packages) :
                lastLoad.val.packages[i] = data[1].packages[i]

\* C13's case: a state with the flag set and two records of one name, an
\* IssueFiled before a New, with a two-digit number, was encoded and decoded
\* to itself.
C13_Witness ==
    /\ lastLoad.valid
    /\ lastLoad.val = data[1]
    /\ data[1] = DatabaseThingData(TRUE,
                    <<StateIssueFiled(PackageIssueFiled("Foo", MaxNum, 2)),
                      StateNew(PackageNew("Foo", 3, 0))>>)

\* C14: a thread at the file write of its flush does not hold the guard, so
\* an idle handle of the same store can take the free mutex for add_package
\* and contains_package while the write is in progress.
C14_NoGuardDuringWrite ==
    \A h \in Handles :
        pc[h] = "flush_write" =>
            /\ mutex[owner[h]].holder # h
            /\ \A k \in Handles :
                  ( /\ owner[k] = owner[h] /\ pc[k] = "idle"
                    /\ mutex[owner[h]].holder = 0 /\ ~aborted )
                  => /\ \A n \in Names : ENABLED ContainsPackage(k, n)
                     /\ Len(data[owner[k]].packages) < MaxPackages =>
                            \A p \in PackageInputs : ENABLED AddPackage(k, p)

\* C14's case: while h is at its file write, k added a record, which h's
\* encoded text does not have, and found it.
C14_Witness ==
    \E h, k \in Handles :
        /\ owner[k] = owner[h]
        /\ pc[h] = "flush_write" /\ pc[k] = "idle"
        /\ Len(Decode(buf[h]).val.packages) < Len(data[owner[h]].packages)
        /\ Len(res[k]) = 2 /\ res[k][2] = TRUE /\ Adders(owner[k], res[k][1]) = {k}

\* Handle h's drop() stores the flag in this step: the step that ends the
\* first critical section of drop(), with the lines printed or not.
FlagStored(h) == DropFlag(h) \/ DropPrintPanics(h)

\* C15: every teardown stores in the store's saved_on_panic whether it runs
\* during a panic, true or false, whatever the flag was; no other step of a
\* store's life changes the flag.  So the flag is that of the teardown that
\* stored it last.
C15_FlagRecordsLastTeardown ==
    [][\A s \in Stores :
         origin[s] # "none" =>
            /\ \A h \in Handles :
                  (owner[h] = s /\ FlagStored(h))
                      => data'[s].saved_on_panic = panicking[h]
            /\ (\A h \in Handles : ~(owner[h] = s /\ FlagStored(h)))
                  => data'[s].saved_on_panic = data[s].saved_on_panic]_vars

\* C15's case: a store loaded with the flag true had one handle torn down
\* during a panic and one torn down normally, and its flag is false.
C15_Witness ==
    \E h, k \in Handles :
        /\ pc[h] = "dropped" /\ panicking[h]
        /\ pc[k] = "dropped" /\ ~panicking[k]
        /\ h # k /\ owner[h] = owner[k]
        /\ origin[owner[h]] = "loaded" /\ lastLoad.val.saved_on_panic
        /\ ~data[owner[h]].saved_on_panic

\* C16: new() that found no file returns a handle when its write of the
\* default state succeeded, and only then; when the write fails it returns
\* an error, with no handle and no store built.
C16_NewOnMissingNeedsTheWrite ==
    [][\A h \in Handles :
         (pc[h] = "new_missing" /\ pc'[h] # pc[h])
            => IF lastWriter' = <<"new", owner[h]>>
                  /\ file' = TextFile(Encode(DefaultData))
               THEN pc'[h] = "idle" /\ origin'[owner[h]] = "created"
               ELSE /\ pc'[h] = "failed" /\ owner'[h] = 0 /\ Len(res'[h]) = 1
                    /\ origin' = origin
                    /\ UNCHANGED storeVars]_vars

\* C16's case: new() found no file, its write failed and created nothing,
\* and it returned the error; no store was built.
C16_Witness ==
    \E h \in Handles :
        /\ pc[h] = "failed" /\ res[h] = <<"io error">> /\ owner[h] = 0
        /\ ~file.exists
        /\ \A s \in Stores : origin[s] = "none"

\* Sequence a is the beginning of sequence b.
IsPrefix(a, b) == Len(a) <= Len(b) /\ SubSeq(b, 1, Len(a)) = a

\* C17: in every step of a store's life its packages before the step are
\* the beginning of its packages after the step, and the only steps that
\* change them are add_package calls on a handle of the store.
C17_PackagesAppendOnly ==
    [][\A s \in Stores :
         origin[s] # "none" =>
            /\ IsPrefix(data[s].packages, data'[s].packages)
            /\ data'[s].packages # data[s].packages =>
                  \E h \in Handles : \E p \in PackageInputs :
                      owner[h] = s /\ AddPackage(h, p)]_vars

\* C17's case: a store loaded one record, got a second one, had both its
\* handles torn down, one during a panic, and still holds the two records in
\* that order, as does the file its last flush wrote.
C17_Witness ==
    \E h, k \in Handles :
        /\ pc[h] = "dropped" /\ pc[k] = "dropped" /\ panicking[h]
        /\ h # k /\ owner[h] = owner[k]
        /\ origin[owner[h]] = "loaded"
        /\ Len(data[owner[h]].packages) = 2
        /\ data[owner[h]].packages[1] = lastLoad.val.packages[1]
        /\ data[owner[h]].packages[2].tag = "New"
        /\ lastWriter = <<"drop", k>>
        /\ Load(file).ok /\ Load(file).val.packages = data[owner[h]].packages

\* The handles of store s.
HandlesOf(s) == {h \in Handles : owner[h] = s}

\* C18: when the only store of a run has had every handle torn down, every
\* teardown reached its flush and no write failed, the file is the encoding
\* of the store's in-memory state.
C18_FinalFileIsFinalState ==
    \A s \in Stores :
        ( /\ nstores = 1 /\ origin[s] # "none" /\ ~aborted
          /\ HandlesOf(s) # {}
          /\ \A h \in HandlesOf(s) : pc[h] = "dropped" /\ res[h] = NoRes
          /\ ~mutex[s].poisoned )
        => file = TextFile(Encode(data[s]))

\* The packages store s began with: nothing if new() created the file, else
\* what new() loaded, which lastLoad holds until the next load.
LoadedAtOpen(s) == IF origin[s] = "created" THEN <<>> ELSE lastLoad.val.packages

\* C19: when the last write of the file was the flush of a normal teardown
\* of a store's only handle, a new() that then loads the file builds a store
\* with saved_on_panic false and the packages the first store had: those it
\* began with, then New records of the names added through the handle, in
\* the order the first store held them.
C19_SingleHandleSessionPersists ==
    [][\A h, k \in Handles :
         ( /\ pc[h] = "dropped" /\ ~panicking[h]
           /\ HandlesOf(owner[h]) = {h}
           /\ lastWriter = <<"drop", h>>
           /\ LoadReturns(k) )
         => /\ data'[owner[k]].saved_on_panic = FALSE
            /\ data'[owner[k]].packages = data[owner[h]].packages
            /\ IsPrefix(LoadedAtOpen(owner[h]), data'[owner[k]].packages)
            /\ \A i \in (Len(LoadedAtOpen(owner[h])) + 1)..Len(data'[owner[k]].packages) :
                  /\ data'[owner[k]].packages[i].tag = "New"
                  /\ data'[owner[k]].packages[i].pkg \in PackageInputs
                  /\ <<data'[owner[k]].packages[i].pkg.name, h>> \in added[owner[h]]]_vars

\* C19's case: a store loaded an IssueFiled "foo" with the flag true, "Foo"
\* was added through its only handle, the handle was torn down normally, and
\* a second new() loaded the two records in that order with the flag false.
C19_Witness ==
    \E h, k \in Handles :
        /\ pc[h] = "dropped" /\ ~panicking[h] /\ pc[k] = "idle"
        /\ owner[h] # owner[k]
        /\ lastWriter = <<"drop", h>>
        /\ origin[owner[h]] = "loaded" /\ origin[owner[k]] = "loaded"
        /\ added[owner[h]] = {<<"Foo", h>>} /\ added[owner[k]] = {}
        /\ data[owner[k]] =
              DatabaseThingData(FALSE,
                  <<StateIssueFiled(PackageIssueFiled("foo", 10, 2)),
                    StateNew(PackageNew("Foo", 3, 0))>>)

====
